---- MODULE Spec2Model ----
(***************************************************************************)
(* Model of two parts of the ml-agents trainers:                           *)
(*   - reward_signal_factory.create_reward_signal                          *)
(*   - ppo/models.py PPOModel (__init__, create_losses and the evaluation  *)
(*     of the loss graph that create_losses builds)                        *)
(* Real numbers are exact rationals [n, d] in lowest terms, d > 0; the     *)
(* value with d = 0 is NaN (the mean of an empty tensor).                  *)
(***************************************************************************)
EXTENDS Integers, Sequences, FiniteSets, TLC

VARIABLES
    \* ---- reward_signal_factory.create_reward_signal ----
    name,            \* argument `name` of the last call
    config_entry,    \* argument `config_entry` of the last call: its set of keys
    calls,           \* what the last call invoked, in order
    outcome,         \* what the last call returned or raised
    n_calls,         \* number of calls made so far
    \* ---- PPOModel hyper-parameters and schedules ----
    lr, epsilon, beta, max_step,
    global_step,     \* LearningModel.global_step
    learning_rate, decay_epsilon, decay_beta,
    \* ---- PPOModel loss graph ----
    pc,              \* "new" | "built" | "failed" | "ran"
    stream_names,
    value_heads,     \* keys of the dict self.value_heads
    returns_holders, old_values,
    value_loss_terms,\* per element of value_losses: the tensors it reads
    error,           \* exception raised by construction, or "none"
    feed,            \* feed_dict and network outputs of the evaluated batch
    clipped_value_estimate,
    value_loss, policy_loss, loss

factory_vars == <<name, config_entry, calls, outcome, n_calls>>
sched_vars == <<lr, epsilon, beta, max_step, global_step,
                learning_rate, decay_epsilon, decay_beta>>
graph_vars == <<pc, stream_names, value_heads, returns_holders, old_values,
                value_loss_terms, error, feed, clipped_value_estimate,
                value_loss, policy_loss, loss>>
vars == <<factory_vars, sched_vars, graph_vars>>

None == "None"

(***************************************************************************)
(* Exact rational arithmetic                                               *)
(***************************************************************************)
Abs(x) == IF x < 0 THEN -x ELSE x

RECURSIVE GCD(_, _)
GCD(a, b) == IF b = 0 THEN a ELSE GCD(b, a % b)

NaN == [n |-> 0, d |-> 0]
IsNaN(a) == a.d = 0

\* n / d in lowest terms, any d # 0
Rat(n, d) ==
    IF d = 1 THEN [n |-> n, d |-> 1]
    ELSE LET s == IF d < 0 THEN -1 ELSE 1
             g == GCD(Abs(n), Abs(d))
         IN [n |-> (s * n) \div g, d |-> (s * d) \div g]

FromInt(i) == [n |-> i, d |-> 1]
RAdd(a, b) ==
    IF IsNaN(a) \/ IsNaN(b) THEN NaN
    ELSE IF a.d = b.d THEN Rat(a.n + b.n, a.d)
    ELSE LET g == GCD(a.d, b.d)
         IN Rat(a.n * (b.d \div g) + b.n * (a.d \div g), (a.d \div g) * b.d)
RNeg(a) == [n |-> -a.n, d |-> a.d]
RSub(a, b) == RAdd(a, RNeg(b))
RMul(a, b) ==
    IF IsNaN(a) \/ IsNaN(b) THEN NaN
    ELSE IF a.d = 1 /\ b.d = 1 THEN [n |-> a.n * b.n, d |-> 1]
    ELSE LET g1 == GCD(Abs(a.n), b.d)
             g2 == GCD(Abs(b.n), a.d)
         IN [n |-> (a.n \div g1) * (b.n \div g2), d |-> (a.d \div g2) * (b.d \div g1)]
RLe(a, b) ==
    /\ ~IsNaN(a) /\ ~IsNaN(b)
    /\ IF a.d = b.d THEN a.n <= b.n
       ELSE LET g == GCD(a.d, b.d) IN a.n * (b.d \div g) <= b.n * (a.d \div g)
RLt(a, b) == RLe(a, b) /\ a # b
RMinimum(a, b) == IF IsNaN(a) \/ IsNaN(b) THEN NaN ELSE IF RLe(a, b) THEN a ELSE b
RMaximum(a, b) == IF IsNaN(a) \/ IsNaN(b) THEN NaN ELSE IF RLe(a, b) THEN b ELSE a

(***************************************************************************)
(* reward_signal_factory                                                   *)
(***************************************************************************)
NAME_TO_CLASS ==
    [n \in {"extrinsic", "gail", "curiosity"} |->
        CASE n = "extrinsic" -> "ExtrinsicSignal"
          [] n = "gail" -> "GAILSignal"
          [] n = "curiosity" -> "CuriositySignal"]

\* names a caller may pass: the registered ones and some that are not
Names == {"extrinsic", "gail", "curiosity", "Extrinsic", "reward", ""}

\* keys a config entry may hold
ConfigKeys == {"strength", "gamma", "encoding_size", "demo_path", "bogus"}

\* the parameter schema each variant declares: the keys check_config requires
RequiredKeys(rcls) ==
    CASE rcls = "ExtrinsicSignal" -> {"strength", "gamma"}
      [] rcls = "CuriositySignal" -> {"strength", "gamma", "encoding_size"}
      [] rcls = "GAILSignal" -> {"strength", "gamma", "demo_path"}

\* keyword parameters of each variant's constructor, after `policy`
PositionalParams(rcls) ==
    CASE rcls = "ExtrinsicSignal" -> {"strength", "gamma"}
      [] rcls = "CuriositySignal" -> {"strength", "gamma"}
      [] rcls = "GAILSignal" -> {"strength", "gamma", "demo_path"}

AcceptedParams(rcls) ==
    CASE rcls = "ExtrinsicSignal" -> {"strength", "gamma"}
      [] rcls = "CuriositySignal" -> {"strength", "gamma", "encoding_size"}
      [] rcls = "GAILSignal" -> {"strength", "gamma", "demo_path", "encoding_size"}

\* rcls.check_config(config_entry): ok, or the configuration error it raises
check_config(rcls, cfg) ==
    IF RequiredKeys(rcls) \subseteq cfg THEN [ok |-> TRUE]
    ELSE [raised |-> "UnityTrainerException", message |-> "hyper-parameter not found",
          arg |-> rcls]

\* rcls(policy, **config_entry): the instance, or the TypeError of a call whose
\* keywords do not match the constructor's parameters
CallConstructor(rcls, cfg) ==
    IF cfg \subseteq AcceptedParams(rcls) /\ PositionalParams(rcls) \subseteq cfg
    THEN [instance |-> rcls, policy |-> "policy", params |-> cfg]
    ELSE [raised |-> "TypeError"]

Raised(r) == "raised" \in DOMAIN r

\* a lookup that falls back to a default class
NameToClassGetDefault(nm) ==
    IF nm \in DOMAIN NAME_TO_CLASS THEN NAME_TO_CLASS[nm] ELSE "ExtrinsicSignal"

\* NAME_TO_CLASS.get(name)
NameToClassGet(nm) == IF nm \in DOMAIN NAME_TO_CLASS THEN NAME_TO_CLASS[nm] ELSE None

\* the constructor call without the except clause
TryConstructNoExcept(rcls, nm, cfg) == CallConstructor(rcls, cfg)

\* the try/except around the constructor call
TryConstruct(rcls, nm, cfg) ==
    LET r == CallConstructor(rcls, cfg)
    IN IF Raised(r) /\ r.raised = "TypeError"
       THEN [raised |-> "UnityTrainerException",
             message |-> "Unknown parameters given for reward signal", arg |-> nm]
       ELSE r

\* constructing first and validating afterwards
ConstructThenValidate(rcls, nm, cfg) ==
    LET c == TryConstruct(rcls, nm, cfg)
        v == check_config(rcls, cfg)
    IN IF Raised(c)
       THEN [calls |-> << <<"__init__", rcls>> >>, outcome |-> c]
       ELSE [calls |-> << <<"__init__", rcls>>, <<"check_config", rcls>> >>,
             outcome |-> IF Raised(v) THEN v ELSE c]

\* validation, then construction, for a class that was found: [calls, outcome]
ValidateAndConstruct(rcls, nm, cfg) ==
    LET v == check_config(rcls, cfg)
    IN IF Raised(v)
       THEN [calls |-> << <<"check_config", rcls>> >>, outcome |-> v]
       ELSE [calls |-> << <<"check_config", rcls>>, <<"__init__", rcls>> >>,
             outcome |-> TryConstruct(rcls, nm, cfg)]

\* create_reward_signal(policy, name, config_entry): [calls, outcome]
create_reward_signal(nm, cfg) ==
    LET rcls == NameToClassGet(nm)
    IN IF rcls = None
       THEN [calls |-> << >>,
             outcome |-> [raised |-> "UnityTrainerException",
                          message |-> "Unknown reward signal type", arg |-> nm]]
       ELSE ValidateAndConstruct(rcls, nm, cfg)

\* number of calls of create_reward_signal a behaviour makes
MaxCalls == 2

FactoryIdle ==
    /\ name = None /\ config_entry = {} /\ calls = << >>
    /\ outcome = [pending |-> TRUE] /\ n_calls = 0

\* one call of create_reward_signal, from entry to return or raise
CreateRewardSignal ==
    /\ n_calls < MaxCalls
    /\ \E nm \in Names, cfg \in SUBSET ConfigKeys :
          LET r == create_reward_signal(nm, cfg)
          IN /\ name' = nm
             /\ config_entry' = cfg
             /\ calls' = r.calls
             /\ outcome' = r.outcome
    /\ n_calls' = n_calls + 1
    /\ UNCHANGED <<sched_vars, graph_vars>>

(***************************************************************************)
(* PPOModel: the decay schedules                                           *)
(***************************************************************************)
RECURSIVE RPow(_, _)
RPow(x, k) == IF k = 0 THEN FromInt(1) ELSE RMul(x, RPow(x, k - 1))

Min(a, b) == IF a <= b THEN a ELSE b

\* a decay whose progress is not capped at decay_steps
polynomial_decay_uncapped(initial, step, decay_steps, end_value, power) ==
    LET p == Rat(step, decay_steps)
    IN RAdd(RMul(RSub(initial, end_value), RPow(RSub(FromInt(1), p), power)),
            end_value)

\* a decay with the initial and the end value exchanged
polynomial_decay_swapped(initial, step, decay_steps, end_value, power) ==
    LET gs == Min(step, decay_steps)
        p == Rat(gs, decay_steps)
    IN RAdd(RMul(RSub(end_value, initial), RPow(RSub(FromInt(1), p), power)),
            initial)

\* tf.train.polynomial_decay(initial, global_step, decay_steps, end_value, power),
\* cycle = False
polynomial_decay(initial, step, decay_steps, end_value, power) ==
    LET gs == Min(step, decay_steps)
        p == Rat(gs, decay_steps)
    IN RAdd(RMul(RSub(initial, end_value), RPow(RSub(FromInt(1), p), power)),
            end_value)

\* end values of the three schedules; the learning rate is counted in units of
\* 1e-10, epsilon and beta are absolute
LR_END == FromInt(1)
EPSILON_END == Rat(1, 10)
BETA_END == Rat(1, 100000)
POWER == 1

\* self.learning_rate, decay_epsilon, decay_beta at a value of global_step
LearningRateAt(l, ms, gs) == polynomial_decay(l, gs, ms, LR_END, POWER)
DecayEpsilonAt(e, ms, gs) == polynomial_decay(e, gs, ms, EPSILON_END, POWER)
DecayBetaAt(b, ms, gs) == polynomial_decay(b, gs, ms, BETA_END, POWER)

\* configured values: the defaults lr = 1e-4, epsilon = 0.2, beta = 1e-3, values
\* equal to the end value, values below it
LrValues == {FromInt(1000000), FromInt(3000000), FromInt(1)}
EpsilonValues == {Rat(1, 5), Rat(3, 10), Rat(1, 10), Rat(1, 20)}
BetaValues == {Rat(1, 1000), Rat(1, 100000), FromInt(0)}
\* max_step ranges over 1..MaxMaxStep, global_step runs to max_step + StepsBeyond
MaxMaxStep == 3
StepsBeyond == 2

SchedIdle ==
    /\ lr = FromInt(0) /\ epsilon = FromInt(0) /\ beta = FromInt(0) /\ max_step = 1
    /\ global_step = 0
    /\ learning_rate = FromInt(0) /\ decay_epsilon = FromInt(0)
    /\ decay_beta = FromInt(0)

\* the three schedule tensors, evaluated at global_step = gs
EvalSchedules(gs) ==
    /\ learning_rate' = LearningRateAt(lr', max_step', gs)
    /\ decay_epsilon' = DecayEpsilonAt(epsilon', max_step', gs)
    /\ decay_beta' = DecayBetaAt(beta', max_step', gs)

SchedConstructed ==
    /\ lr \in LrValues /\ epsilon \in EpsilonValues /\ beta \in BetaValues
    /\ max_step \in 1..MaxMaxStep
    /\ global_step = 0
    /\ learning_rate = LearningRateAt(lr, max_step, 0)
    /\ decay_epsilon = DecayEpsilonAt(epsilon, max_step, 0)
    /\ decay_beta = DecayBetaAt(beta, max_step, 0)

\* one training step of a constructed model: global_step is incremented and the
\* schedules follow
IncrementStep ==
    /\ pc = "built"
    /\ global_step < max_step + StepsBeyond
    /\ global_step' = global_step + 1
    /\ UNCHANGED <<lr, epsilon, beta, max_step>>
    /\ EvalSchedules(global_step + 1)
    /\ UNCHANGED <<factory_vars, graph_vars>>

GraphIdle ==
    /\ pc = "new" /\ stream_names = << >> /\ value_heads = {}
    /\ returns_holders = << >> /\ old_values = << >> /\ value_loss_terms = << >>
    /\ error = "none" /\ feed = [T |-> 0, mask |-> << >>, rows |-> << >>, streams |-> << >>]
    /\ clipped_value_estimate = << >>
    /\ value_loss = NaN /\ policy_loss = NaN /\ loss = NaN

InitFactory == FactoryIdle /\ SchedIdle /\ GraphIdle
NextFactory == CreateRewardSignal
SpecFactory == InitFactory /\ [][NextFactory]_vars

\* a model constructed with the default stream_names and any hyper-parameters
GraphBuiltDefault ==
    /\ pc = "built" /\ stream_names = << >> /\ value_heads = {}
    /\ returns_holders = << >> /\ old_values = << >> /\ value_loss_terms = << >>
    /\ error = "none" /\ feed = [T |-> 0, mask |-> << >>, rows |-> << >>, streams |-> << >>]
    /\ clipped_value_estimate = << >>
    /\ value_loss = NaN /\ policy_loss = NaN /\ loss = NaN

InitSched == FactoryIdle /\ SchedConstructed /\ GraphBuiltDefault
NextSched == IncrementStep
SpecSched == InitSched /\ [][NextSched]_vars

(***************************************************************************)
(* PPOModel: construction of the loss graph                                *)
(***************************************************************************)
StreamNames == {"extrinsic", "curiosity"}
\* longest stream_names list passed to PPOModel
MaxStreams == 2

RECURSIVE SeqsUpTo(_, _)
SeqsUpTo(S, n) ==
    IF n = 0 THEN {<< >>}
    ELSE LET shorter == SeqsUpTo(S, n - 1)
         IN shorter \cup {Append(q, x) : q \in {r \in shorter : Len(r) = n - 1}, x \in S}

Range(q) == {q[i] : i \in 1..Len(q)}

\* LearningModel.create_value_heads: one head per name, in a dict keyed by name
create_value_heads(names) == Range(names)

Placeholder(stream, kind, index) == [stream |-> stream, kind |-> kind, index |-> index]

\* the placeholder loop running over the stream names instead of the value streams
PlaceholderLoopOverNames(value_streams, names) ==
    [error |-> "none",
     returns_holders |-> [i \in 1..Len(names) |-> Placeholder(names[i], "returns", i)],
     old_values |-> [i \in 1..Len(names) |-> Placeholder(names[i], "value_estimate", i)]]

\* lines 68-76: for i in range(len(value_streams)), reading stream_names[i]
PlaceholderLoop(value_streams, names) ==
    LET n == Cardinality(value_streams)
        m == Min(n, Len(names))
    IN [error |-> IF n > Len(names) THEN "IndexError" ELSE "none",
        returns_holders |-> [i \in 1..m |-> Placeholder(names[i], "returns", i)],
        old_values |-> [i \in 1..m |-> Placeholder(names[i], "value_estimate", i)]]

\* lines 85-95: for i, name in enumerate(stream_names), reading old_values[i],
\* value_streams[name] and returns_holders[i]
ValueLossLoop(value_streams, names, holders, olds) ==
    LET bad == {i \in 1..Len(names) : i > Len(olds) \/ names[i] \notin value_streams}
        first == IF bad = {} THEN 0 ELSE CHOOSE i \in bad : \A j \in bad : i <= j
        done == IF bad = {} THEN Len(names) ELSE first - 1
    IN [error |-> IF bad = {} THEN "none"
                  ELSE IF first > Len(olds) THEN "IndexError" ELSE "KeyError",
        terms |-> [i \in 1..done |->
                      [head |-> names[i], returns |-> holders[i], old |-> olds[i]]]]

\* create_losses, the part that builds placeholders and value-loss terms
create_losses(value_streams, names) ==
    LET ph == PlaceholderLoop(value_streams, names)
        vl == ValueLossLoop(value_streams, names, ph.returns_holders, ph.old_values)
    IN [error |-> IF ph.error # "none" THEN ph.error ELSE vl.error,
        returns_holders |-> ph.returns_holders,
        old_values |-> ph.old_values,
        terms |-> IF ph.error # "none" THEN << >> ELSE vl.terms]

(***************************************************************************)
(* PPOModel: evaluation of the loss graph on a batch                       *)
(***************************************************************************)
RECURSIVE SeqSum(_)
SeqSum(q) == IF q = << >> THEN FromInt(0) ELSE RAdd(q[1], SeqSum(Tail(q)))

RECURSIVE Flatten(_)
Flatten(rows) == IF rows = << >> THEN << >> ELSE rows[1] \o Flatten(Tail(rows))

\* tf.reduce_sum(x, axis=1)
ReduceSumAxis1(rows) == [t \in 1..Len(rows) |-> SeqSum(rows[t])]

\* tf.reduce_mean of a vector; NaN when it is empty
ReduceMean(q) ==
    IF Len(q) = 0 \/ \E i \in 1..Len(q) : IsNaN(q[i]) THEN NaN
    ELSE RMul(SeqSum(q), Rat(1, Len(q)))

\* a partition that keeps every element
DynamicPartitionAll(data, mask) == data

\* tf.dynamic_partition(data, mask, 2)[1]: the elements whose mask is 1, in order
RECURSIVE DynamicPartition1(_, _)
DynamicPartition1(data, mask) ==
    IF data = << >> THEN << >>
    ELSE (IF mask[1] = 1 THEN <<data[1]>> ELSE << >>)
         \o DynamicPartition1(Tail(data), Tail(mask))

\* clipping to the upper bound only
ClipByValueUpperOnly(t, lo, hi) == RMinimum(t, hi)

\* tf.clip_by_value(t, lo, hi)
ClipByValue(t, lo, hi) == RMaximum(RMinimum(t, hi), lo)

SquaredDifference(x, y) == RMul(RSub(x, y), RSub(x, y))

\* tf.exp of a log-probability difference counted in units of ln 2
Exp(d) == IF d >= 0 THEN Rat(2 ^ d, 1) ELSE Rat(1, 2 ^ (-d))

\* the value fed to a placeholder: the batch column of the stream it is named after
Fed(fd, ph) ==
    [t \in 1..fd.T |->
        IF ph.kind = "returns" THEN fd.streams[ph.stream][t].R
        ELSE fd.streams[ph.stream][t].Vold]

\* value_streams[name], shape [T, 1]
HeadOutput(fd, nm) == [t \in 1..fd.T |-> <<fd.streams[nm][t].V>>]

\* line 87-89
ClippedValueEstimate(fd, term, eps) ==
    LET v == ReduceSumAxis1(HeadOutput(fd, term.head))
        old == Fed(fd, term.old)
    IN [t \in 1..fd.T |->
           RAdd(old[t], ClipByValue(RSub(v[t], old[t]), RNeg(eps), eps))]

\* lines 90-94: one element of value_losses
StreamValueLoss(fd, term, eps) ==
    LET v == ReduceSumAxis1(HeadOutput(fd, term.head))
        ret == Fed(fd, term.returns)
        clipped == ClippedValueEstimate(fd, term, eps)
        v_opt_a == [t \in 1..fd.T |-> SquaredDifference(ret[t], v[t])]
        v_opt_b == [t \in 1..fd.T |-> SquaredDifference(ret[t], clipped[t])]
        both == [t \in 1..fd.T |-> RMaximum(v_opt_a[t], v_opt_b[t])]
    IN ReduceMean(DynamicPartition1(both, fd.mask))

\* line 96
ValueLoss(fd, terms, eps) ==
    ReduceMean([i \in 1..Len(terms) |-> StreamValueLoss(fd, terms[i], eps)])

\* lines 98-103: min(p_opt_a, p_opt_b), shape [T, 1]
Surrogate(fd, eps) ==
    [t \in 1..fd.T |->
        LET r_theta == Exp(fd.rows[t].log_probs - fd.rows[t].old_log_probs)
            adv == FromInt(fd.rows[t].advantage)
            p_opt_a == RMul(r_theta, adv)
            p_opt_b == RMul(ClipByValue(r_theta, RSub(FromInt(1), eps),
                                        RAdd(FromInt(1), eps)), adv)
        IN <<RMinimum(p_opt_a, p_opt_b)>>]

\* the policy loss without the clipped surrogate
PolicyLossUnclipped(fd, eps) ==
    RNeg(ReduceMean(Flatten(DynamicPartition1(
        [t \in 1..fd.T |->
            <<RMul(Exp(fd.rows[t].log_probs - fd.rows[t].old_log_probs),
                   FromInt(fd.rows[t].advantage))>>], fd.mask))))

\* lines 104-106
PolicyLoss(fd, eps) ==
    RNeg(ReduceMean(Flatten(DynamicPartition1(Surrogate(fd, eps), fd.mask))))

\* line 112: the masked mean of the entropy
EntropyTerm(fd) ==
    ReduceMean(DynamicPartition1([t \in 1..fd.T |-> FromInt(fd.rows[t].entropy)],
                                 fd.mask))

\* the total with the value loss at full weight
TotalLossFullValueWeight(pl, vl, b, ent) == RSub(RAdd(pl, vl), RMul(b, ent))

\* lines 108-113
TotalLoss(pl, vl, b, ent) ==
    RSub(RAdd(pl, RMul(Rat(1, 2), vl)), RMul(b, ent))

(***************************************************************************)
(* PPOModel: construction and one evaluated batch                          *)
(***************************************************************************)
\* longest batch
MaxBatch == 2

\* per-timestep inputs of the policy loss and the entropy term; log-probabilities
\* are counted in units of ln 2, so the ratio r_theta is 2, 2, 1/2
RowValues ==
    {[advantage |-> 1, log_probs |-> 0, old_log_probs |-> -1, entropy |-> 1],
     [advantage |-> -1, log_probs |-> 0, old_log_probs |-> -1, entropy |-> 2],
     [advantage |-> -1, log_probs |-> -1, old_log_probs |-> 0, entropy |-> 0]}

\* per-timestep, per-stream return R, value estimate V and old estimate Vold:
\* a rise of 0.2 (within epsilon = 0.2, clipped by epsilon = 0.1) and a fall of 1
\* (always clipped)
CellValues ==
    {[R |-> FromInt(1), V |-> Rat(1, 5), Vold |-> FromInt(0)],
     [R |-> FromInt(1), V |-> FromInt(-1), Vold |-> FromInt(0)]}

\* epsilon and beta of the models whose loss is evaluated: the default epsilon
\* and its end value, the default beta
GraphEpsilonValues == {Rat(1, 5), Rat(1, 10)}
GraphBetaValues == {Rat(1, 1000)}

Feeds(heads) ==
    UNION {[T : {n}, mask : [1..n -> {0, 1}], rows : [1..n -> RowValues],
            streams : [heads -> [1..n -> CellValues]]] : n \in 0..MaxBatch}

\* PPOModel.__init__: stream_names defaults to [], the value heads are created
\* from it, then create_losses builds the graph
Construct ==
    /\ pc = "new"
    /\ \E given \in BOOLEAN, names \in SeqsUpTo(StreamNames, MaxStreams),
          e \in GraphEpsilonValues, b \in GraphBetaValues :
          LET sn == IF given THEN names ELSE << >>
              heads == create_value_heads(sn)
              g == create_losses(heads, sn)
          IN /\ stream_names' = sn
             /\ value_heads' = heads
             /\ returns_holders' = g.returns_holders
             /\ old_values' = g.old_values
             /\ value_loss_terms' = g.terms
             /\ error' = g.error
             /\ pc' = IF g.error = "none" THEN "built" ELSE "failed"
             /\ lr' = FromInt(1000000) /\ epsilon' = e /\ beta' = b
             /\ max_step' = MaxMaxStep
    /\ global_step' = 0
    /\ EvalSchedules(0)
    /\ UNCHANGED <<feed, clipped_value_estimate, value_loss, policy_loss, loss>>
    /\ UNCHANGED factory_vars

\* one evaluation of the loss graph on a fed batch, with the schedules at their
\* current values
Run ==
    /\ pc = "built"
    /\ \E fd \in Feeds(value_heads) :
          /\ feed' = fd
          /\ clipped_value_estimate' =
                [i \in 1..Len(value_loss_terms) |->
                    ClippedValueEstimate(fd, value_loss_terms[i], decay_epsilon)]
          /\ value_loss' = ValueLoss(fd, value_loss_terms, decay_epsilon)
          /\ policy_loss' = PolicyLoss(fd, decay_epsilon)
          /\ loss' = TotalLoss(policy_loss', value_loss', decay_beta, EntropyTerm(fd))
    /\ pc' = "ran"
    /\ UNCHANGED <<stream_names, value_heads, returns_holders, old_values,
                   value_loss_terms, error>>
    /\ UNCHANGED <<factory_vars, sched_vars>>

InitGraph == FactoryIdle /\ SchedIdle /\ GraphIdle
NextGraph == Construct \/ Run
SpecGraph == InitGraph /\ [][NextGraph]_vars

(***************************************************************************)
(* Properties of create_reward_signal                                      *)
(***************************************************************************)
Called == n_calls > 0
Registered == name \in {"extrinsic", "gail", "curiosity"}
ClassOf(nm) ==
    CASE nm = "extrinsic" -> "ExtrinsicSignal"
      [] nm = "gail" -> "GAILSignal"
      [] nm = "curiosity" -> "CuriositySignal"
Invoked(what) == \E i \in 1..Len(calls) : calls[i][1] = what

\* C1: a call whose name is not one of extrinsic, gail, curiosity raises the
\* "Unknown reward signal type <name>" UnityTrainerException and invokes neither
\* check_config nor a constructor.
C1_UnknownNameFails ==
    (Called /\ ~Registered) =>
        /\ outcome = [raised |-> "UnityTrainerException",
                      message |-> "Unknown reward signal type", arg |-> name]
        /\ calls = << >>

C1_Witness == Called /\ ~Registered /\ name # "" /\ config_entry = {"strength", "gamma"}

\* C2: for a registered name check_config of the variant runs strictly before the
\* variant's constructor; when check_config rejects the entry its failure is the
\* outcome of the call and the constructor is not invoked.
C2_ValidateBeforeConstruct ==
    (Called /\ Registered) =>
        /\ Len(calls) >= 1
        /\ calls[1] = <<"check_config", ClassOf(name)>>
        /\ \A j \in 1..Len(calls) :
              calls[j][1] = "__init__" =>
                 \E i \in 1..(j - 1) : calls[i] = <<"check_config", ClassOf(name)>>
        /\ Raised(check_config(ClassOf(name), config_entry)) =>
              /\ outcome = check_config(ClassOf(name), config_entry)
              /\ ~Invoked("__init__")

C2_Witness ==
    /\ Called /\ Registered
    /\ Raised(check_config(ClassOf(name), config_entry))
    /\ config_entry = {"strength"}

\* C3: for a registered name whose entry passes check_config but holds a key the
\* constructor does not accept, the call raises the "Unknown parameters given for
\* reward signal <name>" UnityTrainerException; the TypeError does not reach the
\* caller and no instance is returned.
C3_UnknownParametersTranslated ==
    (/\ Called /\ Registered
     /\ ~Raised(check_config(ClassOf(name), config_entry))
     /\ ~(config_entry \subseteq AcceptedParams(ClassOf(name)))) =>
        /\ outcome = [raised |-> "UnityTrainerException",
                      message |-> "Unknown parameters given for reward signal",
                      arg |-> name]
        /\ Invoked("__init__")

C3_Witness ==
    /\ Called /\ name = "curiosity"
    /\ config_entry = {"strength", "gamma", "encoding_size", "bogus"}
    /\ Raised(outcome)

(***************************************************************************)
(* Properties of the decay schedules                                       *)
(***************************************************************************)
LrFloor == FromInt(1)
EpsilonFloor == Rat(1, 10)
BetaFloor == Rat(1, 100000)

SchedAtZero ==
    global_step = 0 =>
        learning_rate = lr /\ decay_epsilon = epsilon /\ decay_beta = beta
SchedAtMaxStep ==
    global_step = max_step =>
        /\ learning_rate = LrFloor
        /\ decay_epsilon = EpsilonFloor
        /\ decay_beta = BetaFloor
\* one schedule over one increment of global_step
MonotonicStep(initial, floor, before, after) ==
    /\ RLe(floor, initial) => RLe(after, before)
    /\ RLe(initial, floor) => RLe(before, after)
SchedMonotonic ==
    (global_step' = global_step + 1) =>
        /\ MonotonicStep(lr, LrFloor, learning_rate, learning_rate')
        /\ MonotonicStep(epsilon, EpsilonFloor, decay_epsilon, decay_epsilon')
        /\ MonotonicStep(beta, BetaFloor, decay_beta, decay_beta')

\* C4: each schedule equals its configured initial value at step 0, equals its
\* floor (1e-10, 0.1, 1e-5) at step = max_step, and is monotonic from one step to
\* the next: non-increasing when the initial value is at or above the floor,
\* non-decreasing when it is at or below.
C4_ScheduleEndpointsMonotonic ==
    [](SchedAtZero /\ SchedAtMaxStep) /\ [][SchedMonotonic]_vars

C4_Witness ==
    /\ global_step = max_step /\ max_step >= 2
    /\ RLt(EpsilonFloor, epsilon) /\ RLt(LrFloor, lr) /\ RLt(BetaFloor, beta)
    /\ decay_epsilon = EpsilonFloor

SchedStaysAtFloor ==
    global_step >= max_step =>
        /\ learning_rate = LrFloor
        /\ decay_epsilon = EpsilonFloor
        /\ decay_beta = BetaFloor

\* C5 as stated: for every configured initial value no schedule is ever below
\* its floor, and from step max_step on each schedule is at its floor.
C5_Original ==
    /\ RLe(LrFloor, learning_rate)
    /\ RLe(EpsilonFloor, decay_epsilon)
    /\ RLe(BetaFloor, decay_beta)
    /\ SchedStaysAtFloor

\* C5 amended: a schedule whose configured initial value is at or above its
\* floor is never below the floor, at any step; and whatever the initial value,
\* from step max_step on each schedule is at its floor.
C5_NeverBelowFloor ==
    /\ RLe(LrFloor, lr) => RLe(LrFloor, learning_rate)
    /\ RLe(EpsilonFloor, epsilon) => RLe(EpsilonFloor, decay_epsilon)
    /\ RLe(BetaFloor, beta) => RLe(BetaFloor, decay_beta)
    /\ SchedStaysAtFloor

C5_Witness ==
    /\ global_step > max_step
    /\ RLt(LrFloor, lr) /\ RLt(EpsilonFloor, epsilon) /\ RLt(BetaFloor, beta)
    /\ decay_beta = BetaFloor

(***************************************************************************)
(* Properties of the loss graph                                            *)
(***************************************************************************)
Built == pc \in {"built", "ran"}
Ran == pc = "ran"
Valid(t) == feed.mask[t] = 1
NumValid == Cardinality({t \in 1..feed.T : Valid(t)})

\* f[1] + ... + f[n]
RECURSIVE SumFn(_, _)
SumFn(f, n) == IF n = 0 THEN FromInt(0) ELSE RAdd(SumFn(f, n - 1), f[n])

\* the mean of f over the timesteps whose mask is 1
MeanOverValid(f) ==
    IF NumValid = 0 THEN NaN
    ELSE RMul(SumFn([t \in 1..feed.T |-> IF Valid(t) THEN f[t] ELSE FromInt(0)],
                    feed.T),
              Rat(1, NumValid))

Clamp(x, lo, hi) == IF RLt(x, lo) THEN lo ELSE IF RLt(hi, x) THEN hi ELSE x

\* C6: every clipped value estimate lies within decay_epsilon of the old
\* estimate of its stream and timestep.
C6_ClippedValueWithinEpsilon ==
    Ran =>
        \A i \in 1..Len(clipped_value_estimate) : \A t \in 1..feed.T :
            LET vold == feed.streams[stream_names[i]][t].Vold
                c == clipped_value_estimate[i][t]
            IN /\ RLe(RSub(vold, decay_epsilon), c)
               /\ RLe(c, RAdd(vold, decay_epsilon))

C6_Witness ==
    /\ Ran /\ Len(clipped_value_estimate) = 2 /\ feed.T = 2
    /\ \E i \in 1..2, t \in 1..2 :
          clipped_value_estimate[i][t] # feed.streams[stream_names[i]][t].V
    /\ \E i \in 1..2, t \in 1..2 :
          /\ clipped_value_estimate[i][t] = feed.streams[stream_names[i]][t].V
          /\ clipped_value_estimate[i][t] # feed.streams[stream_names[i]][t].Vold

\* the batch with every timestep whose mask is 0 overwritten by zeros
Padded ==
    LET row == [advantage |-> 0, log_probs |-> 0, old_log_probs |-> 0, entropy |-> 0]
        cell == [R |-> FromInt(0), V |-> FromInt(0), Vold |-> FromInt(0)]
    IN [feed EXCEPT
           !.rows = [t \in 1..feed.T |-> IF Valid(t) THEN feed.rows[t] ELSE row],
           !.streams = [nm \in DOMAIN feed.streams |->
                           [t \in 1..feed.T |->
                               IF Valid(t) THEN feed.streams[nm][t] ELSE cell]]]

\* C7: the value loss, the policy loss, the entropy term and the total loss do
\* not depend on what the batch holds at timesteps whose mask is 0: whatever
\* returns, estimates, old estimates, log-probabilities, advantage and entropy
\* the batch holds there, all four equal those of the batch that holds zeros
\* there, so two batches that agree wherever the mask is 1 give the same losses.
C7_MaskedTimestepsDoNotContribute ==
    Ran =>
        LET fd == Padded
            vl == ValueLoss(fd, value_loss_terms, decay_epsilon)
            pl == PolicyLoss(fd, decay_epsilon)
            ent == EntropyTerm(fd)
        IN /\ vl = value_loss
           /\ pl = policy_loss
           /\ ent = EntropyTerm(feed)
           /\ TotalLoss(pl, vl, decay_beta, ent) = loss

C7_Witness ==
    /\ Ran /\ feed.T = 2 /\ feed.mask = <<1, 0>> /\ Len(stream_names) = 2
    /\ feed.rows[2].advantage = -1 /\ feed.rows[2].entropy = 2
    /\ feed.streams["extrinsic"][2].V = FromInt(-1)
    /\ feed.rows[1] # feed.rows[2]
    /\ ~IsNaN(loss)

\* C8: a completed construction has one returns placeholder, one old-value
\* placeholder, one value head and one value-loss term per stream name, matched
\* by index and named after the stream; a stream_names list whose length differs
\* from the number of value heads never completes.
C8_StreamsHeadsPlaceholdersMatch ==
    /\ Built =>
        /\ Len(returns_holders) = Len(stream_names)
        /\ Len(old_values) = Len(stream_names)
        /\ Cardinality(value_heads) = Len(stream_names)
        /\ Len(value_loss_terms) = Len(stream_names)
        /\ \A i \in 1..Len(stream_names) :
              /\ returns_holders[i] = Placeholder(stream_names[i], "returns", i)
              /\ old_values[i] = Placeholder(stream_names[i], "value_estimate", i)
              /\ stream_names[i] \in value_heads
              /\ value_loss_terms[i] = [head |-> stream_names[i],
                                        returns |-> returns_holders[i],
                                        old |-> old_values[i]]
              /\ Cardinality({j \in 1..Len(stream_names) :
                                 returns_holders[j].stream = stream_names[i]}) = 1
              /\ Cardinality({j \in 1..Len(stream_names) :
                                 old_values[j].stream = stream_names[i]}) = 1
    /\ (pc # "new" /\ Len(stream_names) # Cardinality(value_heads)) =>
          (pc = "failed" /\ error # "none")

C8_Witness == pc = "built" /\ stream_names = <<"curiosity", "extrinsic">>

\* a repeated name gives fewer heads than names, and construction fails
C8_MismatchReached ==
    pc = "failed" /\ stream_names = <<"extrinsic", "extrinsic">>

\* r_theta * advantage at timestep t
UnclippedSurrogate(t) ==
    RMul(Exp(feed.rows[t].log_probs - feed.rows[t].old_log_probs),
         FromInt(feed.rows[t].advantage))
\* clip(r_theta, 1 - eps, 1 + eps) * advantage at timestep t
ClippedSurrogate(t) ==
    RMul(Clamp(Exp(feed.rows[t].log_probs - feed.rows[t].old_log_probs),
               RSub(FromInt(1), decay_epsilon), RAdd(FromInt(1), decay_epsilon)),
         FromInt(feed.rows[t].advantage))
SmallerSurrogate(t) ==
    IF RLe(UnclippedSurrogate(t), ClippedSurrogate(t)) THEN UnclippedSurrogate(t)
    ELSE ClippedSurrogate(t)

\* C9: the policy loss is the negated mean, over the timesteps whose mask is 1,
\* of min(r * advantage, clip(r, 1 - eps, 1 + eps) * advantage); at every such
\* timestep the term used is at most r * advantage.
C9_PolicyLossClippedSurrogate ==
    Ran =>
        /\ policy_loss = RNeg(MeanOverValid([t \in 1..feed.T |-> SmallerSurrogate(t)]))
        /\ \A t \in 1..feed.T :
              Valid(t) => RLe(Surrogate(feed, decay_epsilon)[t][1], UnclippedSurrogate(t))

C9_Witness ==
    /\ Ran /\ feed.T = 2 /\ feed.mask = <<1, 1>>
    /\ SmallerSurrogate(1) # UnclippedSurrogate(1)
    /\ SmallerSurrogate(2) = UnclippedSurrogate(2)
    /\ ClippedSurrogate(2) # UnclippedSurrogate(2)

\* max((R - V)^2, (R - Vclipped)^2) of stream nm at timestep t
StreamSquaredError(nm, t) ==
    LET c == feed.streams[nm][t]
        vclipped == RAdd(c.Vold, Clamp(RSub(c.V, c.Vold), RNeg(decay_epsilon),
                                       decay_epsilon))
        a == RMul(RSub(c.R, c.V), RSub(c.R, c.V))
        b == RMul(RSub(c.R, vclipped), RSub(c.R, vclipped))
    IN IF RLe(a, b) THEN b ELSE a

\* the unweighted mean, over the streams of stream_names, of each stream's mean
\* over the valid timesteps
ExpectedValueLoss ==
    IF Len(stream_names) = 0 THEN NaN
    ELSE RMul(SumFn([i \in 1..Len(stream_names) |->
                        MeanOverValid([t \in 1..feed.T |->
                                          StreamSquaredError(stream_names[i], t)])],
                    Len(stream_names)),
              Rat(1, Len(stream_names)))

\* C10: loss = policy_loss + 0.5 * value_loss - decay_beta * (mean of the entropy
\* over the valid timesteps), value_loss being the unweighted mean over the
\* streams of the mean over the valid timesteps of max((R - V)^2,
\* (R - Vclipped)^2); value_loss is non-negative when there is a stream and a
\* valid timestep.
C10_TotalLoss ==
    Ran =>
        /\ value_loss = ExpectedValueLoss
        /\ loss = RSub(RAdd(policy_loss, RMul(Rat(1, 2), ExpectedValueLoss)),
                       RMul(decay_beta,
                            MeanOverValid([t \in 1..feed.T |->
                                              FromInt(feed.rows[t].entropy)])))
        /\ (Len(stream_names) >= 1 /\ NumValid >= 1) => RLe(FromInt(0), value_loss)

C10_Witness ==
    /\ Ran /\ Len(stream_names) = 2 /\ feed.T = 2 /\ NumValid = 2
    /\ RLt(FromInt(0), value_loss) /\ ~IsNaN(loss)
    /\ feed.streams["extrinsic"] # feed.streams["curiosity"]

====
